---- MODULE Spec2Model ----
(***************************************************************************)
(* ip-freely: a one-shot dynamic-DNS client.  main() fetches the host's    *)
(* public address, reads the address set published for a hostname,        *)
(* compares the two and, when they differ, writes an nsupdate script to a  *)
(* temporary file, runs nsupdate on it and removes the file.               *)
(*                                                                         *)
(* A Python str is modelled as a sequence of characters (one-character     *)
(* TLA+ strings); fixed pieces of a format template are kept as one        *)
(* element each.  Python's None is the one-element sequence None.          *)
(*                                                                         *)
(* Two runs of the program are modelled side by side on the same command   *)
(* line and the same collaborator responses: run 1 with IPDEBUG unset,     *)
(* run 2 with IPDEBUG set.  Every variable that belongs to a run is a      *)
(* function of the run.                                                    *)
(***************************************************************************)
EXTENDS Integers, Sequences, FiniteSets, TLC

(* ------------------------------------------------------------------ *)
(* Bounds of the model                                                 *)
(* ------------------------------------------------------------------ *)

\* longest answer section the DNS collaborator returns
MaxAnswers == 2

\* the two runs that are compared
Runs == {1, 2}

(* ------------------------------------------------------------------ *)
(* Python values                                                       *)
(* ------------------------------------------------------------------ *)

None == <<"None">>

\* truth value of a str-or-None in a condition (`if DEBUG:`)
Truthy(v) == v # None /\ v # <<>>

Digits == {"0", "1", "2", "3", "4", "5", "6", "7", "8", "9"}

HexDigits == Digits \cup {"a", "b", "c", "d", "e", "f", "A", "B", "C", "D", "E", "F"}

Whitespace == {" ", "\n", "\t", "\r"}

\* the elements of a sequence
Range(s) == {s[i] : i \in 1..Len(s)}

\* str.split(sep) for a one-character separator
RECURSIVE split(_, _)
split(s, sep) ==
    IF \A i \in 1..Len(s) : s[i] # sep
    THEN <<s>>
    ELSE LET k == CHOOSE i \in 1..Len(s) :
                      s[i] = sep /\ \A j \in 1..(i - 1) : s[j] # sep
         IN  <<SubSeq(s, 1, k - 1)>> \o split(SubSeq(s, k + 1, Len(s)), sep)

\* sep.join(parts)
RECURSIVE join(_, _)
join(sep, parts) ==
    IF parts = <<>> THEN <<>>
    ELSE IF Len(parts) = 1 THEN parts[1]
    ELSE parts[1] \o <<sep>> \o join(sep, Tail(parts))

\* str.strip()
RECURSIVE strip(_)
strip(s) ==
    IF s = <<>> THEN s
    ELSE IF s[1] \in Whitespace THEN strip(Tail(s))
    ELSE IF s[Len(s)] \in Whitespace THEN strip(SubSeq(s, 1, Len(s) - 1))
    ELSE s

\* str.upper() on the letters the command line uses
UpperChar(c) ==
    CASE c = "a" -> "A"
      [] c = "m" -> "M"
      [] c = "x" -> "X"
      [] OTHER -> c

upper(s) == [i \in 1..Len(s) |-> UpperChar(s[i])]

\* '%d' / f-string formatting of a non-negative int
DigitChar(d) == <<"0", "1", "2", "3", "4", "5", "6", "7", "8", "9">>[d + 1]

RECURSIVE format_int(_)
format_int(n) ==
    IF n < 10 THEN <<DigitChar(n)>>
    ELSE format_int(n \div 10) \o <<DigitChar(n % 10)>>

(* ------------------------------------------------------------------ *)
(* Address validators                                                  *)
(* ------------------------------------------------------------------ *)

\* re.match(r'^\d{1,3}\.\d{1,3}\.\d{1,3}\.\d{1,3}$', ip): four groups of one
\* to three digits; `$` also matches just before one trailing newline.
\* No range check on the groups.
is_ipv4(ip) ==
    LET body   == IF ip # <<>> /\ ip[Len(ip)] = "\n"
                  THEN SubSeq(ip, 1, Len(ip) - 1) ELSE ip
        groups == split(body, ".")
    IN  /\ Len(groups) = 4
        /\ \A i \in 1..4 :
              /\ Len(groups[i]) \in 1..3
              /\ Range(groups[i]) \subseteq Digits

\* socket.inet_pton(AF_INET6, ip) succeeds: colon-separated groups of one to
\* four hex digits, eight of them, or fewer with one "::" (the form with a
\* dotted-quad tail is not modelled).
is_ipv6(ip) ==
    LET groups  == split(ip, ":")
        n       == Len(ip)
        doubles == {i \in 1..(n - 1) : ip[i] = ":" /\ ip[i + 1] = ":"}
        filled  == {i \in 1..Len(groups) : groups[i] # <<>>}
    IN  /\ n >= 2
        /\ Range(ip) \subseteq HexDigits \cup {":"}
        /\ \A i \in filled : Len(groups[i]) <= 4
        /\ Cardinality(doubles) <= 1
        /\ ip[1] = ":" => ip[2] = ":"
        /\ ip[n] = ":" => ip[n - 1] = ":"
        /\ IF doubles = {} THEN Len(groups) = 8
                           ELSE Cardinality(filled) <= 7

is_ip(ip, dnstype) ==
    IF dnstype = <<"A">> THEN is_ipv4(ip)
    ELSE IF dnstype = <<"A", "A", "A", "A">> THEN is_ipv6(ip)
    ELSE is_ipv4(ip) \/ is_ipv6(ip)

(* ------------------------------------------------------------------ *)
(* The values the command line and the collaborators are drawn from    *)
(* ------------------------------------------------------------------ *)

TypeA == <<"A">>
TypeAAAA == <<"A", "A", "A", "A">>

KeyFile == <<"k">>
NoFile == <<"n">>

ServerName == <<"n", "s">>
ServerAddr == <<"9", ".", "9", ".", "9", ".", "9">>

HostFqdn == <<"h", ".", "e", ".", "c">>
HostBare == <<"h">>

IP4a == <<"1", ".", "2", ".", "3", ".", "4">>
IP4b == <<"5", ".", "6", ".", "7", ".", "8">>
IP4wide == <<"9", "9", "9", ".", "1", ".", "1", ".", "1">>
IP6a == <<":", ":", "1">>
Garbage == <<"x">>

UrlV4 == <<"https://api.ipify.org">>
UrlV6 == <<"https://api64.ipify.org">>
UrlCustom == <<"https://ip.example">>

DefaultExe == <<"/usr/bin/nsupdate">>

\* sys.argv as argparse sees it (an option left out is None); an explicit
\* --remoteiplookup is tried with the flags unset only
ArgvSet ==
    LET all == [ exe            : {DefaultExe},
                 privkey        : {None, NoFile, KeyFile},
                 server         : {None, ServerName, ServerAddr},
                 force          : BOOLEAN,
                 ttl            : {300},
                 hostname       : {None, HostFqdn, HostBare},
                 dnstype        : {<<"A">>, <<"a", "a", "a", "a">>, <<"m", "x">>},
                 deleteonly     : BOOLEAN,
                 remoteiplookup : {None, UrlCustom} ]
    IN  {a \in all : a.remoteiplookup = UrlCustom =>
                        /\ ~a.force /\ ~a.deleteonly
                        /\ a.server # ServerName
                        /\ a.hostname # HostBare}

\* os.getenv('IPDEBUG') when the variable is set
DebugSet == {<<>>, <<"1">>}

\* what the echo endpoint can answer with: an exception of urllib3, or a body
HttpResponses ==
    {[raised |-> TRUE, data |-> <<>>]} \cup
    {[raised |-> FALSE, data |-> b] :
        b \in {IP4a \o <<"\n">>, IP4wide, IP6a, Garbage}}

\* socket.getaddrinfo(server, 80): gaierror, or the addresses of the results
GaiResponses ==
    {[raised |-> TRUE, addrs |-> <<>>],
     [raised |-> FALSE, addrs |-> <<>>],
     [raised |-> FALSE, addrs |-> <<IP4b, ServerAddr>>]}

AnswerPool == {IP4a, IP4b, IP6a}

RECURSIVE SeqsUpTo(_, _)
SeqsUpTo(S, n) ==
    IF n = 0 THEN {<<>>}
    ELSE LET shorter == SeqsUpTo(S, n - 1)
         IN  shorter \cup {Append(s, x) : s \in shorter, x \in S}

\* Nslookup.dns_lookup / dns_lookup6: an exception, or the answer list
DnsResponses ==
    {[raised |-> TRUE, answer |-> <<>>]} \cup
    {[raised |-> FALSE, answer |-> a] : a \in SeqsUpTo(AnswerPool, MaxAnswers)}

\* Popen + communicate: OSError at launch, or the client's return code
PopenResponses ==
    {[raised |-> TRUE, rc |-> 0],
     [raised |-> FALSE, rc |-> 0],
     [raised |-> FALSE, rc |-> 1]}

\* a collaborator that has not been called yet has no response
NotAsked == [asked |-> FALSE]

Asked(resp) == [asked |-> TRUE] @@ resp

\* NamedTemporaryFile(delete=False).name: a fresh name for each run
TempName(r) == <<"/tmp/tmp", DigitChar(r)>>

(* ------------------------------------------------------------------ *)
(* State                                                               *)
(* ------------------------------------------------------------------ *)

VARIABLES
    argv,        \* the command line, the same for both runs
    DEBUG,       \* DEBUG[r]: os.getenv('IPDEBUG') in run r
    fs,          \* the files on disk: a set of [name, content]
    httpResp,    \* what the echo endpoint answers (NotAsked until called)
    gaiResp,     \* what getaddrinfo answers
    dnsResp,     \* what the DNS server answers
    popenResp,   \* how launching nsupdate ends
    pc,          \* pc[r]: where main() is in run r
    args,        \* args[r]: the namespace getargs() returned
    ip,          \* ip[r]: main's ip
    currentips,  \* currentips[r]: main's currentips
    conffile,    \* conffile[r]: main's conffile
    rc,          \* rc[r]: <<>> or <<return code of nsupdate>>
    exitcode,    \* exitcode[r]: <<>> or <<exit status of the process>>
    calls,       \* calls[r]: the collaborator calls run r made, in order
    out          \* out[r]: what run r printed under IPDEBUG

vars == <<argv, DEBUG, fs, httpResp, gaiResp, dnsResp, popenResp, pc, args,
          ip, currentips, conffile, rc, exitcode, calls, out>>

env == <<argv, DEBUG>>

Init ==
    /\ argv \in ArgvSet
    /\ DEBUG \in {[r \in Runs |-> IF r = 1 THEN None ELSE d] : d \in DebugSet}
    /\ fs = {[name |-> KeyFile, content |-> <<>>]}
    /\ httpResp = NotAsked
    /\ gaiResp = NotAsked
    /\ dnsResp = NotAsked
    /\ popenResp = NotAsked
    /\ pc = [r \in Runs |-> "getargs"]
    /\ args = [r \in Runs |-> None]
    /\ ip = [r \in Runs |-> None]
    /\ currentips = [r \in Runs |-> <<>>]
    /\ conffile = [r \in Runs |-> None]
    /\ rc = [r \in Runs |-> <<>>]
    /\ exitcode = [r \in Runs |-> <<>>]
    /\ calls = [r \in Runs |-> <<>>]
    /\ out = [r \in Runs |-> <<>>]

\* run 2 starts when run 1 has ended
Scheduled(r) == r = 1 \/ pc[1] = "exit"

\* the response of a collaborator: drawn at its first call, the same after
Answers(memo, S) == IF memo.asked THEN {memo} ELSE {Asked(x) : x \in S}

\* print(...) guarded by a condition on DEBUG
Printed(r, cond, tag) == IF cond THEN <<tag>> ELSE <<>>

\* sys.exit(code), or the interpreter ending on an uncaught exception
Exit(r, code) ==
    /\ pc' = [pc EXCEPT ![r] = "exit"]
    /\ exitcode' = [exitcode EXCEPT ![r] = <<code>>]

Call(r, op, arg) ==
    calls' = [calls EXCEPT ![r] = Append(@, [op |-> op, arg |-> arg])]

isfile(path) == \E f \in fs : f.name = path

(* ------------------------------------------------------------------ *)
(* getargs                                                             *)
(* ------------------------------------------------------------------ *)

\* argparse: type=str.upper then choices=['A', 'AAAA']
dnstype_accepted(raw) == upper(raw) \in {TypeA, TypeAAAA}

\* the namespace getargs returns
getargs(raw) ==
    LET dnstype == upper(raw.dnstype)
    IN  [raw EXCEPT
           !.dnstype = dnstype,
           !.remoteiplookup =
               IF raw.remoteiplookup = None
               THEN IF dnstype = TypeA THEN UrlV4 ELSE UrlV6
               ELSE raw.remoteiplookup]

GetArgs(r) ==
    /\ pc[r] = "getargs"
    /\ Scheduled(r)
    /\ IF dnstype_accepted(argv.dnstype)
       THEN /\ args' = [args EXCEPT ![r] = getargs(argv)]
            /\ out' = [out EXCEPT ![r] =
                          @ \o Printed(r, Truthy(DEBUG[r]), "Set iplookup")]
            /\ pc' = [pc EXCEPT ![r] = "validate"]
            /\ UNCHANGED exitcode
       ELSE \* parser.error(): usage message and exit status 2
            /\ Exit(r, 2)
            /\ UNCHANGED <<args, out>>
    /\ UNCHANGED <<env, fs, httpResp, gaiResp, dnsResp, popenResp, ip,
                   currentips, conffile, rc, calls>>

(* ------------------------------------------------------------------ *)
(* main: the checks of the command line                                *)
(* ------------------------------------------------------------------ *)

args_missing(a) == None \in {a.privkey, a.server, a.hostname}

\* the key file is not looked for
key_unchecked(a) == FALSE

key_missing(a) == ~isfile(a.privkey)

ValidateArgs(r) ==
    /\ pc[r] = "validate"
    /\ Scheduled(r)
    /\ IF args_missing(args[r])
       THEN Exit(r, 1)
       ELSE IF key_missing(args[r])
       THEN Exit(r, 1)
       ELSE /\ pc' = [pc EXCEPT ![r] = "get_remote_ip"]
            /\ UNCHANGED exitcode
    /\ UNCHANGED <<env, fs, httpResp, gaiResp, dnsResp, popenResp, args, ip,
                   currentips, conffile, rc, calls, out>>

(* ------------------------------------------------------------------ *)
(* get_remote_ip                                                       *)
(* ------------------------------------------------------------------ *)

\* get_remote_ip without the assert on the body
get_remote_ip_unchecked(resp, dnstype) ==
    IF resp.raised THEN None ELSE strip(resp.data)

\* the value get_remote_ip returns for a response of the endpoint: the
\* stripped body when it passes is_ip, None on any exception (the failed
\* assert included)
get_remote_ip(resp, dnstype) ==
    IF resp.raised THEN None
    ELSE LET body == strip(resp.data)
         IN  IF is_ip(body, dnstype) THEN body ELSE None

\* main going on without a fetched address
ip_never_missing(v) == FALSE

\* main's test of the value get_remote_ip returned
ip_missing(v) == v = None

GetRemoteIp(r) ==
    /\ pc[r] = "get_remote_ip"
    /\ Scheduled(r)
    /\ \E resp \in Answers(httpResp, HttpResponses) :
         LET fetched == get_remote_ip(resp, args[r].dnstype)
         IN  /\ httpResp' = resp
             /\ Call(r, "GET", args[r].remoteiplookup)
             /\ ip' = [ip EXCEPT ![r] = fetched]
             /\ out' = [out EXCEPT ![r] =
                           @ \o Printed(r, fetched = None /\ Truthy(DEBUG[r]),
                                        "get_remote_ip exception")]
             /\ IF ip_missing(fetched)
                THEN Exit(r, 1)
                ELSE /\ pc' = [pc EXCEPT ![r] = "get_current_ips"]
                     /\ UNCHANGED exitcode
    /\ UNCHANGED <<env, fs, gaiResp, dnsResp, popenResp, args, currentips,
                   conffile, rc>>

(* ------------------------------------------------------------------ *)
(* get_current_ips                                                     *)
(* ------------------------------------------------------------------ *)

\* the server name has to be resolved first
needs_resolving(server) == ~is_ip(server, <<"ANY">>)

\* socket.getaddrinfo(server, 80)[-1][-1][0] raised (gaierror, or IndexError
\* on an empty result)
resolve_failed(gai) == gai.raised \/ gai.addrs = <<>>

\* the address of the last result
resolved(gai) == gai.addrs[Len(gai.addrs)]

\* the entries that fail is_ip dropped, the others kept
filtered_answer(answer, dnstype) ==
    SelectSeq(answer, LAMBDA x : is_ip(x, dnstype))

\* the answer after `assert all(is_ip(ip, dnstype) for ip in ips)` and the
\* bare except: the whole list, or [] when one entry fails
checked_answer(answer, dnstype) ==
    IF \A i \in 1..Len(answer) : is_ip(answer[i], dnstype)
    THEN answer ELSE <<>>

\* the debug print inside the try block failing, so that the bare except
\* empties the list whenever debugging is on
get_current_ips_debug_clears(lookup_raised, dns, dnstype, debug) ==
    IF lookup_raised \/ dns.raised \/ Truthy(debug) THEN <<>>
    ELSE IF \A i \in 1..Len(dns.answer) : is_ip(dns.answer[i], dnstype)
         THEN dns.answer ELSE <<>>

\* the list get_current_ips returns; printing under DEBUG is the only use
\* it makes of debug
get_current_ips(lookup_raised, dns, dnstype, debug) ==
    IF lookup_raised \/ dns.raised THEN <<>>
    ELSE checked_answer(dns.answer, dnstype)

GetCurrentIps(r) ==
    /\ pc[r] = "get_current_ips"
    /\ Scheduled(r)
    /\ LET a       == args[r]
           resolve == needs_resolving(a.server)
       IN  \E gai \in (IF resolve THEN Answers(gaiResp, GaiResponses) ELSE {gaiResp}) :
             LET failed  == resolve /\ resolve_failed(gai)
                 server  == IF resolve /\ ~failed THEN resolved(gai) ELSE a.server
                 lookup  == IF a.dnstype = TypeA THEN "dns_lookup" ELSE "dns_lookup6"
                 gaicall == IF resolve
                            THEN <<[op |-> "getaddrinfo", arg |-> a.server]>>
                            ELSE <<>>
                 dbg     == Truthy(DEBUG[r])
             IN  \E dns \in (IF failed THEN {dnsResp} ELSE Answers(dnsResp, DnsResponses)) :
                   LET dnscall == IF failed THEN <<>>
                                  ELSE <<[op |-> lookup,
                                          arg |-> server \o <<"@">> \o a.hostname]>>
                       ips     == get_current_ips(failed, dns, a.dnstype, DEBUG[r])
                   IN  /\ gaiResp' = gai
                       /\ dnsResp' = dns
                       /\ calls' = [calls EXCEPT ![r] = @ \o gaicall \o dnscall]
                       /\ currentips' = [currentips EXCEPT ![r] = ips]
                       /\ out' = [out EXCEPT ![r] =
                            @ \o Printed(r, dbg /\ resolve /\ ~failed, "dns server ip")
                              \o Printed(r, dbg /\ ~failed /\ ~dns.raised, "current record")
                              \o Printed(r, dbg, "get_current_ip")]
    /\ pc' = [pc EXCEPT ![r] = "compare"]
    /\ UNCHANGED <<env, fs, httpResp, popenResp, args, ip, conffile, rc, exitcode>>

(* ------------------------------------------------------------------ *)
(* main: the change decision                                           *)
(* ------------------------------------------------------------------ *)

\* [ip] == currentips: the comparison as lists, not as sets
same_record_as_lists(newip, current) == <<newip>> = current

\* set([ip]) == set(currentips)
same_record(newip, current) == {newip} = Range(current)

\* the condition under which main exits without an update
no_update(newip, current, force, deleteonly) ==
    same_record(newip, current) /\ ~force /\ ~deleteonly

Compare(r) ==
    /\ pc[r] = "compare"
    /\ Scheduled(r)
    /\ IF no_update(ip[r], currentips[r], args[r].force, args[r].deleteonly)
       THEN /\ out' = [out EXCEPT ![r] =
                          @ \o Printed(r, Truthy(DEBUG[r]), "unchanged")]
            /\ Exit(r, 0)
       ELSE /\ pc' = [pc EXCEPT ![r] = "create_nsupdate_contents"]
            /\ UNCHANGED <<exitcode, out>>
    /\ UNCHANGED <<env, fs, httpResp, gaiResp, dnsResp, popenResp, args, ip,
                   currentips, conffile, rc, calls>>

(* ------------------------------------------------------------------ *)
(* create_nsupdate_contents                                            *)
(* ------------------------------------------------------------------ *)

\* '.'.join(args.hostname.split('.')[1:])
domain_of(hostname) == join(".", Tail(split(hostname, ".")))

del_line(hostname, dnstype) ==
    <<"update delete ">> \o hostname \o <<".", " ">> \o dnstype

add_line(hostname, newip, ttl, dnstype, deleteonly) ==
    IF deleteonly THEN <<>>
    ELSE <<"update add ">> \o hostname \o <<".", " ">> \o format_int(ttl)
           \o <<" ">> \o dnstype \o <<" ">> \o newip

\* the text written to the temporary file
nsupdate_contents(server, domain, hostname, newip, ttl, dnstype, deleteonly) ==
    <<"server ">> \o server \o <<".", "\n">>
    \o <<"debug yes", "\n">>
    \o <<"zone ">> \o domain \o <<".", "\n">>
    \o del_line(hostname, dnstype) \o <<"\n">>
    \o add_line(hostname, newip, ttl, dnstype, deleteonly) \o <<"\n">>
    \o <<"show", "\n">>
    \o <<"send", "\n">>
    \o <<"quit">>

CreateNsupdateContents(r) ==
    /\ pc[r] = "create_nsupdate_contents"
    /\ Scheduled(r)
    /\ LET a       == args[r]
           content == nsupdate_contents(a.server, domain_of(a.hostname),
                                        a.hostname, ip[r], a.ttl, a.dnstype,
                                        a.deleteonly)
           dbg     == Truthy(DEBUG[r])
       IN  /\ fs' = fs \cup {[name |-> TempName(r), content |-> content]}
           /\ calls' = [calls EXCEPT ![r] =
                           @ \o <<[op |-> "NamedTemporaryFile", arg |-> TempName(r)],
                                  [op |-> "write", arg |-> content]>>]
           /\ conffile' = [conffile EXCEPT ![r] = TempName(r)]
           /\ out' = [out EXCEPT ![r] =
                         @ \o Printed(r, dbg /\ a.deleteonly, "delete only")
                           \o Printed(r, dbg, "content")]
    /\ pc' = [pc EXCEPT ![r] = "run_nsupdate"]
    /\ UNCHANGED <<env, httpResp, gaiResp, dnsResp, popenResp, args, ip,
                   currentips, rc, exitcode>>

(* ------------------------------------------------------------------ *)
(* run_nsupdate                                                        *)
(* ------------------------------------------------------------------ *)

\* cmd = [exe, '-k', privkey, '-v', conffile]
nsupdate_cmd(exe, privkey, file) ==
    exe \o <<" ", "-k", " ">> \o privkey \o <<" ", "-v", " ">> \o file

RunNsupdate(r) ==
    /\ pc[r] = "run_nsupdate"
    /\ Scheduled(r)
    /\ \E resp \in Answers(popenResp, PopenResponses) :
         /\ popenResp' = resp
         /\ Call(r, "Popen", nsupdate_cmd(args[r].exe, args[r].privkey, conffile[r]))
         /\ IF resp.raised
            THEN \* Popen raises OSError; nothing in main catches it
                 /\ Exit(r, 1)
                 /\ UNCHANGED <<rc, out>>
            ELSE /\ rc' = [rc EXCEPT ![r] = <<resp.rc>>]
                 /\ out' = [out EXCEPT ![r] =
                               @ \o Printed(r, DEBUG[r] # None, "nsupdate output")]
                 /\ pc' = [pc EXCEPT ![r] = "remove"]
                 /\ UNCHANGED exitcode
    /\ UNCHANGED <<env, fs, httpResp, gaiResp, dnsResp, args, ip, currentips, conffile>>

(* ------------------------------------------------------------------ *)
(* main: after run_nsupdate                                            *)
(* ------------------------------------------------------------------ *)

\* the file removed only when nsupdate succeeded
remove_on_success(files, path, code) ==
    IF code = 0 THEN {f \in files : f.name # path} ELSE files

\* os.remove(conffile), which main calls whatever rc is
remove(files, path, code) == {f \in files : f.name # path}

\* the return code of nsupdate ignored
status_always_zero(code) == 0

\* the exit status main ends with for a return code of nsupdate
status_for(code) == IF code # 0 THEN 1 ELSE 0

RemoveConffile(r) ==
    /\ pc[r] = "remove"
    /\ Scheduled(r)
    /\ fs' = remove(fs, conffile[r], rc[r][1])
    /\ Call(r, "os.remove", conffile[r])
    /\ Exit(r, status_for(rc[r][1]))
    /\ UNCHANGED <<env, httpResp, gaiResp, dnsResp, popenResp, args, ip,
                   currentips, conffile, rc, out>>

(* ------------------------------------------------------------------ *)
(* The program                                                         *)
(* ------------------------------------------------------------------ *)

Main(r) ==
    \/ GetArgs(r)
    \/ ValidateArgs(r)
    \/ GetRemoteIp(r)
    \/ GetCurrentIps(r)
    \/ Compare(r)
    \/ CreateNsupdateContents(r)
    \/ RunNsupdate(r)
    \/ RemoveConffile(r)

Next == \E r \in Runs : Main(r)

Spec == Init /\ [][Next]_vars

(* ------------------------------------------------------------------ *)
(* Vocabulary of the properties                                        *)
(* ------------------------------------------------------------------ *)

Terminal(r) == pc[r] = "exit"

\* the positions of calls[r] at which collaborator `op` was called
CallsOf(r, op) == {i \in 1..Len(calls[r]) : calls[r][i].op = op}

Did(r, op) == CallsOf(r, op) # {}

Queried(r) == Did(r, "dns_lookup") \/ Did(r, "dns_lookup6")

\* the file run r wrote is on disk
OnDisk(r) == \E f \in fs : f.name = conffile[r]

\* the configuration the command line gives, as the user wrote it
RequiredMissing == None \in {argv.privkey, argv.server, argv.hostname}

KeyFileAbsent == \A f \in fs : f.name # argv.privkey

TypeRejected == upper(argv.dnstype) \notin {TypeA, TypeAAAA}

\* the published addresses differ, as sets, from the fetched one
Differs(r) == {ip[r]} # {currentips[r][i] : i \in 1..Len(currentips[r])}

MustAct(r) == args[r].deleteonly \/ args[r].force \/ Differs(r)

(* ------------------------------------------------------------------ *)
(* C1: the change decision                                             *)
(* ------------------------------------------------------------------ *)

\* C1: in a run that passed the checks of the command line and obtained a
\* remote IP, the payload is built and the executor invoked if and only if
\* deleteonly is set, or force is set, or {ip} differs as a set from the
\* published addresses; otherwise the run exits 0 with no payload and no
\* executor call.
C1_UpdateIffNeeded ==
    \A r \in Runs :
        /\ Did(r, "NamedTemporaryFile") => ip[r] # None /\ MustAct(r)
        /\ Did(r, "Popen") => Did(r, "NamedTemporaryFile")
        /\ (Terminal(r) /\ ip[r] # None) =>
              IF MustAct(r)
              THEN Did(r, "NamedTemporaryFile") /\ Did(r, "Popen")
              ELSE /\ exitcode[r] = <<0>>
                   /\ ~Did(r, "NamedTemporaryFile")
                   /\ ~Did(r, "write")
                   /\ ~Did(r, "Popen")

\* a run that ended without an update on an answer that repeats the address
C1_Witness ==
    \E r \in Runs :
        /\ Terminal(r)
        /\ ip[r] # None
        /\ currentips[r] = <<ip[r], ip[r]>>
        /\ ~args[r].force /\ ~args[r].deleteonly
        /\ exitcode[r] = <<0>>

(* ------------------------------------------------------------------ *)
(* C2, C3: the temporary file                                          *)
(* ------------------------------------------------------------------ *)

\* C2: in every terminal state reached after nsupdate was launched and
\* completed, with return code zero or not, the payload file is gone.
C2_RemovedAfterExecutor ==
    \A r \in Runs : (Terminal(r) /\ rc[r] # <<>>) => ~OnDisk(r)

\* a run ended after nsupdate returned a non-zero code
C2_Witness ==
    \E r \in Runs :
        Terminal(r) /\ rc[r] = <<1>> /\ Did(r, "os.remove") /\ exitcode[r] = <<1>>

\* C3: once the payload file has been created, no terminal state of the run
\* has it still on disk, a failure to launch the executor included.
C3_RemovedOnEveryExit ==
    \A r \in Runs : (Terminal(r) /\ conffile[r] # None) => ~OnDisk(r)

(* ------------------------------------------------------------------ *)
(* C4: a bad command line ends the run before any network call         *)
(* ------------------------------------------------------------------ *)

\* C4: when privkey, server or hostname is missing, or privkey names no
\* existing file, the run makes no collaborator call at all (no HTTP fetch,
\* no DNS query, no executor) and its exit status is not zero.
C4_BadConfigNoNetwork ==
    \A r \in Runs :
        (RequiredMissing \/ KeyFileAbsent) =>
            /\ calls[r] = <<>>
            /\ ip[r] = None
            /\ Terminal(r) => exitcode[r] # <<0>>

\* a run given every option, with a key path that names no file, has ended
C4_Witness ==
    \E r \in Runs :
        /\ Terminal(r)
        /\ ~RequiredMissing /\ ~TypeRejected
        /\ argv.privkey = NoFile
        /\ exitcode[r] = <<1>>

(* ------------------------------------------------------------------ *)
(* C5: a failed remote fetch is fatal                                  *)
(* ------------------------------------------------------------------ *)

\* the fetch of run r failed: the request raised, or the trimmed body is no
\* address of the family of dnstype (in the sense of the validators)
FetchFailed(r) ==
    /\ Did(r, "GET")
    /\ \/ httpResp.raised
       \/ ~is_ip(strip(httpResp.data), args[r].dnstype)

\* C5: when the remote fetch fails, get_remote_ip yields None and the run
\* has ended with a non-zero status having made no other call: no DNS
\* query, no payload, no executor, whatever force and deleteonly are.
C5_FetchFailureFatal ==
    \A r \in Runs :
        FetchFailed(r) =>
            /\ ip[r] = None
            /\ Terminal(r)
            /\ exitcode[r] # <<0>>
            /\ Len(calls[r]) = 1
            /\ OnDisk(r) = FALSE

\* a forced, delete-only run that got an IPv6 body for an A record
C5_Witness ==
    \E r \in Runs :
        /\ FetchFailed(r)
        /\ ~httpResp.raised
        /\ httpResp.data = IP6a
        /\ args[r].dnstype = TypeA
        /\ args[r].force /\ args[r].deleteonly
        /\ Terminal(r)

(* ------------------------------------------------------------------ *)
(* C6: a failed lookup of the current records is not fatal             *)
(* ------------------------------------------------------------------ *)

\* get_current_ips has returned in run r
LookedUp(r) ==
    pc[r] \notin {"getargs", "validate", "get_remote_ip", "get_current_ips"}
    /\ ip[r] # None

\* the lookup of run r failed: the server name did not resolve, the query
\* raised, or some returned value is no address of the expected family
LookupFailed(r) ==
    /\ LookedUp(r)
    /\ \/ Did(r, "getaddrinfo") /\ (gaiResp.raised \/ gaiResp.addrs = <<>>)
       \/ Queried(r) /\ dnsResp.raised
       \/ Queried(r) /\ ~dnsResp.raised
             /\ \E i \in 1..Len(dnsResp.answer) :
                   ~is_ip(dnsResp.answer[i], args[r].dnstype)

\* the lines of the payloads run r wrote
Lines(text) == split(text, "\n")

Written(r) == {calls[r][i].arg : i \in CallsOf(r, "write")}

AddDirective(r) ==
    <<"update add ">> \o args[r].hostname \o <<".", " ">>
       \o format_int(args[r].ttl) \o <<" ">> \o args[r].dnstype \o <<" ">> \o ip[r]

\* C6: after a failed lookup the current record set is empty (the whole
\* answer is discarded) and the run goes on: it does not end before it has
\* written a payload and invoked the executor, and with deleteonly unset
\* the payload holds the add directive for the fetched address.
C6_LookupFailureNotFatal ==
    \A r \in Runs :
        LookupFailed(r) =>
            /\ currentips[r] = <<>>
            /\ pc[r] \notin {"compare", "create_nsupdate_contents"} => Did(r, "write")
            /\ Terminal(r) => Did(r, "Popen")
            /\ ~args[r].deleteonly =>
                  \A text \in Written(r) :
                      \E i \in 1..Len(Lines(text)) : Lines(text)[i] = AddDirective(r)

\* the answer held the fetched address next to one of the other family, no
\* flag was set, and the run went on to invoke the executor on an add
C6_Witness ==
    \E r \in Runs :
        /\ LookupFailed(r)
        /\ Queried(r) /\ ~dnsResp.raised
        /\ \E i \in 1..Len(dnsResp.answer) : dnsResp.answer[i] = ip[r]
        /\ ~args[r].force /\ ~args[r].deleteonly
        /\ Did(r, "Popen")
        /\ Written(r) # {}

(* ------------------------------------------------------------------ *)
(* C7: the exit status                                                 *)
(* ------------------------------------------------------------------ *)

NoChangeNeeded(r) == Terminal(r) /\ ip[r] # None /\ ~Did(r, "NamedTemporaryFile")

ExecutorZero(r) == rc[r] = <<0>>

ExecutorNonZero(r) == rc[r] # <<>> /\ rc[r] # <<0>>

KeyNotFound == ~RequiredMissing /\ KeyFileAbsent

RemoteFetchFailed(r) == Did(r, "GET") /\ ip[r] = None

\* Popen raised: the executor was called and returned nothing
LaunchFailed(r) == Terminal(r) /\ Did(r, "Popen") /\ rc[r] = <<>>

\* C7 as stated: the exit status is 0 exactly when the run ended with no
\* change needed or the executor returned 0, and non-zero exactly when a
\* required argument is missing, the key file is not found, the remote fetch
\* failed, or the executor returned a non-zero status.
C7_ExitCodeAsStated ==
    \A r \in Runs :
        Terminal(r) =>
            /\ exitcode[r] = <<0>> <=> (NoChangeNeeded(r) \/ ExecutorZero(r))
            /\ exitcode[r] # <<0>> <=>
                  \/ RequiredMissing
                  \/ KeyNotFound
                  \/ RemoteFetchFailed(r)
                  \/ ExecutorNonZero(r)

\* C7 amended: the same, with two more cases of a non-zero status: the
\* argument parser rejected the command line, and the executor could not be
\* launched.
C7_ExitCode ==
    \A r \in Runs :
        Terminal(r) =>
            /\ exitcode[r] = <<0>> <=> (NoChangeNeeded(r) \/ ExecutorZero(r))
            /\ exitcode[r] # <<0>> <=>
                  \/ TypeRejected
                  \/ RequiredMissing
                  \/ KeyNotFound
                  \/ RemoteFetchFailed(r)
                  \/ ExecutorNonZero(r)
                  \/ LaunchFailed(r)

\* both runs are over: nsupdate returned 1 and the status is 1
C7_Witness ==
    /\ \A r \in Runs : Terminal(r) /\ ExecutorNonZero(r) /\ exitcode[r] = <<1>>
    /\ ~TypeRejected /\ ~RequiredMissing /\ ~KeyNotFound

(* ------------------------------------------------------------------ *)
(* C8: the payload                                                     *)
(* ------------------------------------------------------------------ *)

\* the hostname after its first dot (empty when it has none)
WithoutFirstLabel(h) ==
    LET dots == {i \in 1..Len(h) : h[i] = "."}
    IN  IF dots = {} THEN <<>>
        ELSE SubSeq(h, (CHOOSE i \in dots : \A j \in dots : i <= j) + 1, Len(h))

\* the directives of the transaction of run r, as the format lists them
Directives(r) ==
    << <<"server ">> \o args[r].server \o <<".">>,
       <<"debug yes">>,
       <<"zone ">> \o WithoutFirstLabel(args[r].hostname) \o <<".">>,
       <<"update delete ">> \o args[r].hostname \o <<".", " ">> \o args[r].dnstype >>
    \o (IF args[r].deleteonly THEN <<>> ELSE <<AddDirective(r)>>)
    \o << <<"show">>, <<"send">>, <<"quit">> >>

\* C8: the payload is the lines server, debug, zone, delete, an add line if
\* and only if deleteonly is false, show, send, quit, in that order and with
\* nothing else between them; the zone is the hostname without its leftmost
\* label.
C8_PayloadLines ==
    \A r \in Runs : \A text \in Written(r) : Lines(text) = Directives(r)

\* what the code writes instead: the same directives, with an empty line
\* where the add directive would be when deleteonly is set (nsupdate reads
\* an empty line as `send`)
C8_PayloadLinesWithBlank ==
    \A r \in Runs : \A text \in Written(r) :
        Lines(text) =
            IF args[r].deleteonly
            THEN SubSeq(Directives(r), 1, 4) \o << <<>> >> \o SubSeq(Directives(r), 5, 7)
            ELSE Directives(r)

(* ------------------------------------------------------------------ *)
(* C9: the debug toggle                                                *)
(* ------------------------------------------------------------------ *)

\* a string with the name of the temporary file, fresh in every run, hidden
Anonymous(s) ==
    [i \in 1..Len(s) |-> IF i > 1 /\ s[i - 1] = "/tmp/tmp" THEN "#" ELSE s[i]]

\* the collaborator calls of run r up to the name of its temporary file
Trace(r) ==
    [i \in 1..Len(calls[r]) |->
        [op |-> calls[r][i].op, arg |-> Anonymous(calls[r][i].arg)]]

IsPrefix(s, t) == Len(s) <= Len(t) /\ s = SubSeq(t, 1, Len(s))

\* C9: run 2 (IPDEBUG set, to the empty string or not) makes the calls of
\* run 1 (IPDEBUG unset) in the same order with the same arguments, the
\* payload included, and ends with the same results, the same file removed
\* or left, and the same exit status.
C9_DebugChangesNothing ==
    /\ Terminal(1) => IsPrefix(Trace(2), Trace(1))
    /\ (Terminal(1) /\ Terminal(2)) =>
          /\ Trace(1) = Trace(2)
          /\ exitcode[1] = exitcode[2]
          /\ ip[1] = ip[2]
          /\ currentips[1] = currentips[2]
          /\ rc[1] = rc[2]
          /\ OnDisk(1) = OnDisk(2)

\* both runs removed their file, and only run 2, with IPDEBUG set to the
\* empty string, printed
C9_Witness ==
    /\ Terminal(1) /\ Terminal(2)
    /\ DEBUG[2] = <<>>
    /\ Did(1, "os.remove") /\ Did(2, "os.remove")
    /\ out[1] = <<>>
    /\ out[2] # <<>>

(* ------------------------------------------------------------------ *)
(* C10: the order of the steps                                         *)
(* ------------------------------------------------------------------ *)

\* the place of a collaborator call in the workflow
Rank(op) ==
    CASE op = "GET" -> 1
      [] op = "getaddrinfo" -> 2
      [] op \in {"dns_lookup", "dns_lookup6"} -> 3
      [] op = "NamedTemporaryFile" -> 4
      [] op = "write" -> 5
      [] op = "Popen" -> 6
      [] op = "os.remove" -> 7

\* C10: in every run the calls come in the order fetch, lookup, payload,
\* executor, deletion, each at most once; each is made only after the step
\* before it succeeded; and a payload that was written is handed to exactly
\* one executor invocation.
C10_StepsInOrderOnce ==
    \A r \in Runs :
        /\ \A i, j \in 1..Len(calls[r]) :
              i < j => Rank(calls[r][i].op) < Rank(calls[r][j].op)
        /\ calls[r] # <<>> =>
              /\ calls[r][1].op = "GET"
              /\ ~RequiredMissing /\ ~KeyFileAbsent /\ ~TypeRejected
        /\ (Did(r, "getaddrinfo") \/ Queried(r)) => ip[r] # None
        /\ (Did(r, "getaddrinfo") /\ Queried(r)) =>
              ~gaiResp.raised /\ gaiResp.addrs # <<>>
        /\ Did(r, "NamedTemporaryFile") => MustAct(r)
        /\ Did(r, "write") <=> Did(r, "NamedTemporaryFile")
        /\ Did(r, "Popen") =>
              /\ Did(r, "write")
              /\ \A i \in CallsOf(r, "Popen") :
                    calls[r][i].arg =
                       nsupdate_cmd(args[r].exe, args[r].privkey, conffile[r])
        /\ Did(r, "os.remove") => rc[r] # <<>>
        /\ (Terminal(r) /\ Did(r, "write")) =>
              Cardinality(CallsOf(r, "Popen")) = 1

\* a run that went through every step, the resolution of the server name
\* included
C10_Witness ==
    \E r \in Runs :
        /\ Terminal(r)
        /\ [i \in 1..Len(calls[r]) |-> calls[r][i].op] =
              <<"GET", "getaddrinfo", "dns_lookup6", "NamedTemporaryFile",
                "write", "Popen", "os.remove">>

====
